---- MODULE Spec2Model ----
(***************************************************************************)
(* EcoTrack: the activity ledger (logActivity), its persistence            *)
(* (loadData / saveData over localStorage) and the demo-data loader, in    *)
(* the two variants the repository ships: the simplified application       *)
(* (src/unnamed/part_001, cap 50, fields logged / co2) and the full one    *)
(* (src/js/earth.js, cap 100, fields totalLogged / carbon).                *)
(*                                                                         *)
(* Carbon figures are JavaScript Numbers.  They are modelled as IEEE-754   *)
(* binary64 values: a sign, a 53-bit significand kept as a little-endian   *)
(* sequence of 15-bit limbs, and a binary exponent; every sum is rounded   *)
(* to nearest, ties to even, as the engine rounds it.                      *)
(*                                                                         *)
(* The specifications share the variables: Spec (the handlers), Readers    *)
(* (the dashboards and charts read a loaded diary, in a time zone and at   *)
(* an hour of the day), Library (the functions of the Carbon module,       *)
(* src/unnamed/part_000, applied to arguments), EstimatorCalls (those      *)
(* functions called between the clicks of a session), Exports (the export  *)
(* module on a loaded diary), Twins (the two applications side by side)    *)
(* and StorageCalls (Storage.set and Storage.import).                      *)
(***************************************************************************)
EXTENDS Integers, Sequences, FiniteSets, TLC

(***************************************************************************)
(* Natural numbers of arbitrary size: little-endian limb sequences with no *)
(* leading (high) zero limb, <<>> being 0.                                 *)
(***************************************************************************)
LimbBits == 15
Base == 32768
SigBits == 53

Limb(x, i) == IF i <= Len(x) THEN x[i] ELSE 0

RECURSIVE BNorm(_)
BNorm(x) ==
    IF x = <<>> THEN x
    ELSE IF x[Len(x)] = 0 THEN BNorm(SubSeq(x, 1, Len(x) - 1)) ELSE x

RECURSIVE BAddFrom(_, _, _, _)
BAddFrom(x, y, i, c) ==
    IF i > Len(x) /\ i > Len(y)
    THEN (IF c = 0 THEN <<>> ELSE <<c>>)
    ELSE LET s == Limb(x, i) + Limb(y, i) + c
         IN  <<s % Base>> \o BAddFrom(x, y, i + 1, s \div Base)

BAdd(x, y) == BAddFrom(x, y, 1, 0)

\* x - y for x >= y
RECURSIVE BSubFrom(_, _, _, _)
BSubFrom(x, y, i, b) ==
    IF i > Len(x) THEN <<>>
    ELSE LET d == x[i] - Limb(y, i) - b
         IN  IF d < 0 THEN <<d + Base>> \o BSubFrom(x, y, i + 1, 1)
                      ELSE <<d>> \o BSubFrom(x, y, i + 1, 0)

BSub(x, y) == BNorm(BSubFrom(x, y, 1, 0))

RECURSIVE BCmpFrom(_, _, _)
BCmpFrom(x, y, i) ==
    IF i = 0 THEN 0
    ELSE IF x[i] > y[i] THEN 1
    ELSE IF x[i] < y[i] THEN -1
    ELSE BCmpFrom(x, y, i - 1)

\* -1, 0 or 1 as x <, =, > y
BCmp(x, y) ==
    IF Len(x) > Len(y) THEN 1
    ELSE IF Len(x) < Len(y) THEN -1
    ELSE BCmpFrom(x, y, Len(x))

\* x * f for a factor 0 < f <= Base
RECURSIVE BMulSmallFrom(_, _, _, _)
BMulSmallFrom(x, f, i, c) ==
    IF i > Len(x)
    THEN (IF c = 0 THEN <<>> ELSE <<c>>)
    ELSE LET s == x[i] * f + c
         IN  <<s % Base>> \o BMulSmallFrom(x, f, i + 1, s \div Base)

BMulSmall(x, f) == BMulSmallFrom(x, f, 1, 0)

\* quotient and remainder of x by a divisor 0 < d <= Base
RECURSIVE BDivSmallFrom(_, _, _, _)
BDivSmallFrom(x, d, i, r) ==
    IF i = 0 THEN [q |-> <<>>, r |-> r]
    ELSE LET cur  == r * Base + x[i]
             rest == BDivSmallFrom(x, d, i - 1, cur % d)
         IN  [q |-> rest.q \o <<cur \div d>>, r |-> rest.r]

BDivSmall(x, d) ==
    LET qr == BDivSmallFrom(x, d, Len(x), 0)
    IN  [q |-> BNorm(qr.q), r |-> qr.r]

BFromNat(n) == BNorm(<<n % Base, (n \div Base) % Base, n \div (Base * Base)>>)

\* x * 2^k
BShl(x, k) ==
    IF x = <<>> THEN x
    ELSE [i \in 1..(k \div LimbBits) |-> 0] \o BMulSmall(x, 2 ^ (k % LimbBits))

\* floor(x / 2^k)
BShr(x, k) ==
    IF k \div LimbBits >= Len(x) THEN <<>>
    ELSE BDivSmall(SubSeq(x, (k \div LimbBits) + 1, Len(x)), 2 ^ (k % LimbBits)).q

RECURSIVE BitLen(_)
BitLen(n) == IF n = 0 THEN 0 ELSE 1 + BitLen(n \div 2)

BBits(x) == IF x = <<>> THEN 0 ELSE (Len(x) - 1) * LimbBits + BitLen(x[Len(x)])

BOdd(x) == x # <<>> /\ x[1] % 2 = 1

(***************************************************************************)
(* JavaScript Numbers.  k is "num" for a finite value (-1)^s * m * 2^e     *)
(* with m = 0 or 2^52 <= m < 2^53, and "nan" for NaN.                      *)
(***************************************************************************)
Zero == [k |-> "num", s |-> 0, m |-> <<>>, e |-> 0]
NaN  == [k |-> "nan", s |-> 0, m |-> <<>>, e |-> 0]
\* JSON null standing where a Number was serialised
Null == [k |-> "null", s |-> 0, m |-> <<>>, e |-> 0]

\* ToNumber: null converts to +0
ToNumber(a) == IF a.k = "null" THEN Zero ELSE a

IsNaN(a) == a.k = "nan"
IsZero(a) == a.k = "num" /\ a.m = <<>>

\* The binary64 value nearest to (-1)^s * n * 2^e, ties to even; sticky says
\* that the exact value lies strictly above n * 2^e in magnitude (by less than
\* one unit of n), which needs n to carry at least 55 bits.
RoundToDouble(s, n, e, sticky) ==
    IF n = <<>> THEN Zero
    ELSE LET bits == BBits(n)
         IN  IF bits <= SigBits
             THEN [k |-> "num", s |-> s, m |-> BShl(n, SigBits - bits),
                   e |-> e - (SigBits - bits)]
             ELSE LET d    == bits - SigBits
                      q    == BShr(n, d)
                      rem  == BSub(n, BShl(q, d))
                      half == BShl(<<1>>, d - 1)
                      c    == BCmp(rem, half)
                      up   == c > 0 \/ (c = 0 /\ (sticky \/ BOdd(q)))
                      q2   == IF up THEN BAdd(q, <<1>>) ELSE q
                  IN  IF BBits(q2) > SigBits
                      THEN [k |-> "num", s |-> s, m |-> BShr(q2, 1), e |-> e + d + 1]
                      ELSE [k |-> "num", s |-> s, m |-> q2, e |-> e + d]

\* a + b
fadd(x, y) ==
    LET a == ToNumber(x)
        b == ToNumber(y)
    IN
    IF IsNaN(a) \/ IsNaN(b) THEN NaN
    ELSE IF IsZero(a) THEN b
    ELSE IF IsZero(b) THEN a
    ELSE LET e  == IF a.e < b.e THEN a.e ELSE b.e
             am == BShl(a.m, a.e - e)
             bm == BShl(b.m, b.e - e)
             c  == BCmp(am, bm)
         IN  IF a.s # b.s /\ c = 0 THEN Zero
             ELSE RoundToDouble(IF a.s = b.s \/ c > 0 THEN a.s ELSE b.s,
                                IF a.s = b.s THEN BAdd(am, bm)
                                ELSE IF c > 0 THEN BSub(am, bm) ELSE BSub(bm, am),
                                e, FALSE)

\* a <= 0
LeZero(a) == a.k = "num" /\ (a.m = <<>> \/ a.s = 1)

BToNat(x) == Limb(x, 1) + Base * Limb(x, 2)

\* x.toFixed(1) for a finite x with |x| < 2^15, as the count of tenths: the
\* integer n with n / 10 nearest to |x|, the larger n on a tie
toFixed1(x) ==
    IF IsZero(x) THEN 0
    ELSE LET t == BMulSmall(x.m, 10)
         IN  IF x.e >= 0 THEN BToNat(BShl(t, x.e))
             ELSE LET q    == BShr(t, -x.e)
                      rem  == BSub(t, BShl(q, -x.e))
                      half == BShl(<<1>>, -x.e - 1)
                  IN  BToNat(q) + (IF BCmp(rem, half) >= 0 THEN 1 ELSE 0)

\* parseFloat of the decimal literal (-1)^s * n / 10^scale, 0 <= scale <= 2
parseFloat(s, n, scale) ==
    LET qr == BDivSmall(BShl(BFromNat(n), 64), 10 ^ scale)
    IN  RoundToDouble(s, qr.q, -64, qr.r # 0)

(***************************************************************************)
(* Products, quotients, comparisons and Math.ceil.  Infinity is the kind   *)
(* "inf"; a zero carries its sign in s.                                    *)
(***************************************************************************)
Inf(s) == [k |-> "inf", s |-> s, m |-> <<>>, e |-> 0]
SignedZero(s) == [k |-> "num", s |-> s, m |-> <<>>, e |-> 0]

IsInf(a) == a.k = "inf"

\* x * y on naturals, limb by limb of y from the i-th on
RECURSIVE BMulFrom(_, _, _)
BMulFrom(x, y, i) ==
    IF i > Len(y) THEN <<>>
    ELSE LET rest == BMulFrom(x, y, i + 1)
             up   == IF rest = <<>> THEN <<>> ELSE <<0>> \o rest
         IN  IF y[i] = 0 THEN up ELSE BAdd(BMulSmall(x, y[i]), up)

BMul(x, y) == IF x = <<>> THEN <<>> ELSE BMulFrom(x, y, 1)

\* The largest digit q <= qhat with q * d <= r
RECURSIVE BFit(_, _, _)
BFit(r, d, qhat) ==
    IF qhat = 0 THEN 0
    ELSE IF BCmp(BMulSmall(d, qhat), r) > 0 THEN BFit(r, d, qhat - 1)
    ELSE qhat

\* Long division, one limb of the quotient at a time, for a divisor d whose
\* top limb is at least Base / 2 and a remainder r < d: the quotient and
\* remainder of (q * d + r) * Base^i by d.  A digit is estimated from the
\* top limbs and brought down to fit.
RECURSIVE BDivFrom(_, _, _, _)
RECURSIVE BDivTake(_, _, _, _, _)
BDivFrom(r, d, i, q) ==
    IF i = 0 THEN [q |-> q, r |-> r]
    ELSE IF r = <<>> THEN BDivTake(r, d, i, q, 0)
    ELSE BDivTake(<<0>> \o r, d, i, q,
                  BFit(<<0>> \o r, d,
                       IF (Limb(r, Len(d)) * Base + Limb(r, Len(d) - 1)) \div d[Len(d)] >= Base
                       THEN Base - 1
                       ELSE (Limb(r, Len(d)) * Base + Limb(r, Len(d) - 1)) \div d[Len(d)]))

BDivTake(r, d, i, q, digit) ==
    BDivFrom(IF digit = 0 THEN r ELSE BSub(r, BMulSmall(d, digit)), d, i - 1,
             IF digit = 0 /\ q = <<>> THEN q ELSE <<digit>> \o q)

\* floor(n * Base^i / d) and the remainder, for d <= n < 2 * d or n < d
BDiv(n, d, i) ==
    IF BCmp(n, d) >= 0
    THEN BDivFrom(BSub(n, d), d, i, <<1>>)
    ELSE BDivFrom(n, d, i, <<>>)

\* a * b
fmul(x, y) ==
    LET a == ToNumber(x)
        b == ToNumber(y)
    IN
    IF IsNaN(a) \/ IsNaN(b) THEN NaN
    ELSE IF (IsInf(a) /\ IsZero(b)) \/ (IsZero(a) /\ IsInf(b)) THEN NaN
    ELSE IF IsInf(a) \/ IsInf(b) THEN Inf((a.s + b.s) % 2)
    ELSE IF IsZero(a) \/ IsZero(b) THEN SignedZero((a.s + b.s) % 2)
    ELSE RoundToDouble((a.s + b.s) % 2, BMul(a.m, b.m), a.e + b.e, FALSE)

\* The limbs a quotient carries below the binary point before rounding, and
\* the shift that brings a significand's top limb to at least Base / 2
GuardLimbs == 4
TopShift == 7

\* a / b
fdiv(x, y) ==
    LET a == ToNumber(x)
        b == ToNumber(y)
    IN
    IF IsNaN(a) \/ IsNaN(b) THEN NaN
    ELSE IF (IsInf(a) /\ IsInf(b)) \/ (IsZero(a) /\ IsZero(b)) THEN NaN
    ELSE IF IsInf(a) \/ IsZero(b) THEN Inf((a.s + b.s) % 2)
    ELSE IF IsZero(a) \/ IsInf(b) THEN SignedZero((a.s + b.s) % 2)
    ELSE LET qr == BDiv(BShl(a.m, TopShift), BShl(b.m, TopShift), GuardLimbs)
         IN  RoundToDouble((a.s + b.s) % 2, qr.q, a.e - b.e - GuardLimbs * LimbBits,
                           qr.r # <<>>)

\* -a
fneg(a) == IF IsNaN(a) THEN a ELSE [a EXCEPT !.s = 1 - @]

\* a - b
fsub(x, y) == fadd(x, fneg(ToNumber(y)))

\* -1, 0 or 1 as a <, =, > b, for finite a and b
fcmp(a, b) ==
    IF IsZero(a) /\ IsZero(b) THEN 0
    ELSE IF IsZero(a) THEN (IF b.s = 1 THEN 1 ELSE -1)
    ELSE IF IsZero(b) THEN (IF a.s = 1 THEN -1 ELSE 1)
    ELSE IF a.s # b.s THEN (IF a.s = 1 THEN -1 ELSE 1)
    ELSE LET e == IF a.e < b.e THEN a.e ELSE b.e
             c == BCmp(BShl(a.m, a.e - e), BShl(b.m, b.e - e))
         IN  IF a.s = 1 THEN -c ELSE c

\* a < b: false when either is NaN
flt(x, y) ==
    LET a == ToNumber(x)
        b == ToNumber(y)
    IN
    IF IsNaN(a) \/ IsNaN(b) THEN FALSE
    ELSE IF IsInf(a) THEN a.s = 1 /\ ~(IsInf(b) /\ b.s = 1)
    ELSE IF IsInf(b) THEN b.s = 0
    ELSE fcmp(a, b) < 0

\* the Number of a natural below Base^3
FromNat(n) == RoundToDouble(0, BFromNat(n), 0, FALSE)

\* Math.ceil(x)
ceil(x) ==
    IF x.k # "num" \/ IsZero(x) \/ x.e >= 0 THEN x
    ELSE LET ip   == BShr(x.m, -x.e)
             frac == BCmp(BShl(ip, -x.e), x.m) # 0
             up   == IF x.s = 0 /\ frac THEN BAdd(ip, <<1>>) ELSE ip
         IN  IF up = <<>> THEN SignedZero(x.s) ELSE RoundToDouble(x.s, up, 0, FALSE)

\* Math.round(x): the nearest integer, a tie going towards +Infinity
round(x) ==
    IF x.k # "num" \/ IsZero(x) \/ x.e >= 0 THEN x
    ELSE LET ip   == BShr(x.m, -x.e)
             half == BCmp(BShl(BSub(x.m, BShl(ip, -x.e)), 1), BShl(<<1>>, -x.e))
             up   == IF half > 0 \/ (half = 0 /\ x.s = 0) THEN BAdd(ip, <<1>>) ELSE ip
         IN  IF up = <<>> THEN SignedZero(x.s) ELSE RoundToDouble(x.s, up, 0, FALSE)

(***************************************************************************)
(* The application.                                                        *)
(***************************************************************************)
VARIABLES
    variant,    \* "simple": src/unnamed/part_001, "full": src/js/earth.js
    quota,      \* TRUE when localStorage.setItem throws (storage full or disabled)
    today,      \* the UTC calendar day of new Date(), the key getTodayKey returns
    data,       \* the in-memory state (data / appData)
    storage,    \* the localStorage item under STORAGE_KEY
    view,       \* what the refresh functions last wrote to the page
    lastOp,     \* the last event, with its arguments and outcome, and the event count
    ledger,     \* history: every record call that ran to the end of its updates
    origin      \* history: what loadData found at page load

vars == <<variant, quota, today, data, storage, view, lastOp, ledger, origin>>

\* Bounds of the model
MaxSteps == 2       \* events of the session: handler calls and date changes

Variants == {"simple", "full"}

CapSimple == 50
CapFull == 100
\* Cap with the shorter list one entry shorter still
CapShort(v) == IF v = "simple" THEN CapSimple - 1 ELSE CapFull

Cap(v) == IF v = "simple" THEN CapSimple ELSE CapFull

RecentShown == 10

EmptyObj == [f \in {} |-> 0]
Has(obj, f) == f \in DOMAIN obj

LoggedKey(v) == IF v = "simple" THEN "logged" ELSE "totalLogged"

\* { ...defaultData }
defaultData(v) ==
    [daily |-> EmptyObj,
     activities |-> <<>>,
     stats |-> IF v = "simple"
               THEN [logged |-> 0, ecoChoices |-> 0]
               ELSE [totalLogged |-> 0, ecoChoices |-> 0, bikeTrips |-> 0, plantMeals |-> 0]]

ZeroBucket == [transport |-> Zero, food |-> Zero, energy |-> Zero, total |-> Zero]

(***************************************************************************)
(* Persistence.  The stored item is absent, a text JSON.parse rejects, or  *)
(* a JSON text, kept as the value it parses to.                            *)
(***************************************************************************)
NoItem == [kind |-> "absent", val |-> EmptyObj]
BadText == [kind |-> "text", val |-> EmptyObj]

\* JSON.stringify of a Number: NaN is written as null
NumberToJSON(a) == IF IsNaN(a) THEN Null ELSE a

\* JSON.parse(JSON.stringify(d)) for a state with all three members
ToJSON(d) ==
    [daily |-> [k \in DOMAIN d.daily |->
                   [f \in DOMAIN d.daily[k] |-> NumberToJSON(d.daily[k][f])]],
     activities |-> d.activities,
     stats |-> d.stats]

\* loadData: the parsed item if there is one and it parses, the defaults otherwise
loadData(v, st) ==
    IF st.kind = "json" THEN st.val ELSE defaultData(v)

\* saveData: [storage, threw].  A failing setItem leaves the item as it was;
\* the simple variant lets the exception out, the full one catches it.
saveData(v, q, d, st) ==
    IF q THEN [storage |-> st, threw |-> (v = "simple")]
    ELSE [storage |-> [kind |-> "json", val |-> ToJSON(d)], threw |-> FALSE]

(***************************************************************************)
(* Refresh of the page.  view.drawn names the parts written so far.        *)
(***************************************************************************)
BlankView == [drawn |-> {}, today |-> ZeroBucket, list |-> <<>>, stats |-> EmptyObj]

Take(s, n) == SubSeq(s, 1, IF Len(s) < n THEN Len(s) ELSE n)

\* data.daily[today] || { transport: 0, food: 0, energy: 0, total: 0 }
getBucket(d, now) == IF now \in DOMAIN d.daily THEN d.daily[now] ELSE ZeroBucket

\* The refresh calls a handler makes, in order, by the part of the page each
\* writes.  simple: updateDashboard (with updateImpact), updateActivityList;
\* full: updateDashboard, updateActivityList, updateInsights / updateGoals
RefreshSteps(v) ==
    IF v = "simple" THEN <<"dashboard", "stats", "list">>
    ELSE <<"dashboard", "list", "stats">>

\* The refresh calls of the page load; the full variant leaves the list alone
InitSteps(v) ==
    IF v = "simple" THEN <<"dashboard", "stats", "list">>
    ELSE <<"dashboard", "stats">>

\* The member of the state a refresh call dereferences
Reads(step) ==
    IF step = "dashboard" THEN "daily"
    ELSE IF step = "list" THEN "activities" ELSE "stats"

\* What a refresh call writes to the page
Draw(step, v, d, now, vw) ==
    IF step = "dashboard"
    THEN [vw EXCEPT !.drawn = @ \cup {step}, !.today = getBucket(d, now)]
    ELSE IF step = "list"
    THEN [vw EXCEPT !.drawn = @ \cup {step}, !.list = Take(d.activities, RecentShown)]
    ELSE [vw EXCEPT !.drawn = @ \cup {step},
                    !.stats = IF v = "simple" THEN [ecoChoices |-> d.stats.ecoChoices]
                              ELSE d.stats]

\* The calls from the i-th on, until one throws a TypeError on a missing member
RECURSIVE RunSteps(_, _, _, _, _, _)
RunSteps(steps, i, v, d, now, vw) ==
    IF i > Len(steps) THEN [view |-> vw, threw |-> FALSE]
    ELSE IF ~Has(d, Reads(steps[i])) THEN [view |-> vw, threw |-> TRUE]
    ELSE RunSteps(steps, i + 1, v, d, now, Draw(steps[i], v, d, now, vw))

Refresh(v, d, now, vw) == RunSteps(RefreshSteps(v), 1, v, d, now, vw)

(***************************************************************************)
(* logActivity, statement by statement.                                    *)
(***************************************************************************)
\* if (!category || !type) return;   (full variant only)
Rejects(v, category, type) == v = "full" /\ (category = "" \/ type = "")

\* AddToBucket with the total recomputed from the three categories
AddToBucketSummed(b, category, carbon) ==
    LET b1 == IF category \in DOMAIN b
              THEN [b EXCEPT ![category] = fadd(@, carbon)]
              ELSE (category :> NaN) @@ b
    IN  [b1 EXCEPT !.total = fadd(fadd(b1.transport, b1.food), b1.energy)]

\* AddToBucket with the figure added onto energy as well
AddToBucketSpilled(b, category, carbon) ==
    LET b1 == IF category \in DOMAIN b
              THEN [b EXCEPT ![category] = fadd(@, carbon)]
              ELSE (category :> NaN) @@ b
    IN  [b1 EXCEPT !.total = fadd(@, carbon),
                   !.energy = IF category = "energy" THEN @ ELSE fadd(@, carbon)]

\* if (!daily[today]) daily[today] = {...0};  daily[today][category] += carbon;
\* daily[today].total += carbon
AddToBucket(b, category, carbon) ==
    LET b1 == IF category \in DOMAIN b
              THEN [b EXCEPT ![category] = fadd(@, carbon)]
              ELSE (category :> NaN) @@ b
    IN  [b1 EXCEPT !.total = fadd(@, carbon)]

\* UpdateDaily starting the bucket afresh on every call
UpdateDailyFresh(daily, now, category, carbon) ==
    (now :> AddToBucket(ZeroBucket, category, carbon)) @@ daily

UpdateDaily(daily, now, category, carbon) ==
    LET b == IF now \in DOMAIN daily THEN daily[now] ELSE ZeroBucket
    IN  (now :> AddToBucket(b, category, carbon)) @@ daily

\* the entry unshift puts in front
Activity(v, now, category, type, carbon) ==
    IF v = "simple"
    THEN [category |-> category, type |-> type, co2 |-> carbon, time |-> now]
    ELSE [date |-> now, category |-> category, type |-> type, carbon |-> carbon,
          timestamp |-> now]

\* Trim cutting at the wrong end: slice(1) in place of slice(0, CAP)
TrimNewest(v, acts) ==
    IF Len(acts) > Cap(v) THEN SubSeq(acts, 2, Len(acts)) ELSE acts

\* if (activities.length > CAP) activities = activities.slice(0, CAP)
Trim(v, acts) == IF Len(acts) > Cap(v) THEN SubSeq(acts, 1, Cap(v)) ELSE acts

\* BumpStats taking an eco choice back on a positive figure
BumpStatsUndo(v, stats, type, carbon) ==
    LET s1 == [stats EXCEPT ![LoggedKey(v)] = @ + 1]
    IN  IF LeZero(carbon) THEN [s1 EXCEPT !.ecoChoices = @ + 1]
        ELSE [s1 EXCEPT !.ecoChoices = @ - 1]

\* BumpStats with carbon < 0 in place of carbon <= 0
BumpStatsStrict(v, stats, type, carbon) ==
    LET s1 == [stats EXCEPT ![LoggedKey(v)] = @ + 1]
    IN  IF carbon.k = "num" /\ carbon.m # <<>> /\ carbon.s = 1
        THEN [s1 EXCEPT !.ecoChoices = @ + 1] ELSE s1

\* BumpStats counting an eco choice but not the activity when carbon <= 0
BumpStatsEcoOnly(v, stats, type, carbon) ==
    IF LeZero(carbon) THEN [stats EXCEPT !.ecoChoices = @ + 1]
    ELSE [stats EXCEPT ![LoggedKey(v)] = @ + 1]

\* stats.logged++; if (carbon <= 0) stats.ecoChoices++; (full: bikeTrips, plantMeals)
BumpStats(v, stats, type, carbon) ==
    LET s1 == [stats EXCEPT ![LoggedKey(v)] = @ + 1]
        s2 == IF LeZero(carbon) THEN [s1 EXCEPT !.ecoChoices = @ + 1] ELSE s1
        s3 == IF v = "full" /\ type \in {"bike", "walk"}
              THEN [s2 EXCEPT !.bikeTrips = @ + 1] ELSE s2
    IN  IF v = "full" /\ type \in {"vegan", "vegetarian"}
        THEN [s3 EXCEPT !.plantMeals = @ + 1] ELSE s3

\* What a handler leaves behind: the state, the stored item, the page, and how
\* it ended ("rejected", "TypeError", "QuotaExceededError" or "done").
Halt(d, st, vw, end) == [data |-> d, storage |-> st, view |-> vw, end |-> end]

\* saveData(); then the refresh calls, unless saveData threw
Persist(v, q, now, d, st, vw) ==
    IF saveData(v, q, d, st).threw THEN Halt(d, st, vw, "QuotaExceededError")
    ELSE Halt(d, saveData(v, q, d, st).storage, Refresh(v, d, now, vw).view, "done")

\* StatsStep with saveData() and the refresh calls ahead of the stats statements
StatsStepLate(v, q, now, d, st, vw, type, carbon) ==
    IF ~Has(d, "stats") THEN Halt(d, st, vw, "TypeError")
    ELSE [Persist(v, q, now, d, st, vw) EXCEPT
              !.data = [d EXCEPT !.stats = BumpStats(v, @, type, carbon)]]

\* the stats statements and what follows them
StatsStep(v, q, now, d, st, vw, type, carbon) ==
    IF ~Has(d, "stats") THEN Halt(d, st, vw, "TypeError")
    ELSE Persist(v, q, now, [d EXCEPT !.stats = BumpStats(v, @, type, carbon)], st, vw)

\* the unshift and the trim, and what follows them
ActivitiesStep(v, q, now, d, st, vw, category, type, carbon) ==
    IF ~Has(d, "activities") THEN Halt(d, st, vw, "TypeError")
    ELSE StatsStep(v, q, now,
                   [d EXCEPT !.activities =
                       Trim(v, <<Activity(v, now, category, type, carbon)>> \o @)],
                   st, vw, type, carbon)

logActivity(v, q, now, d, st, vw, category, type, carbon) ==
    IF Rejects(v, category, type) THEN Halt(d, st, vw, "rejected")
    ELSE IF ~Has(d, "daily") THEN Halt(d, st, vw, "TypeError")
    ELSE ActivitiesStep(v, q, now,
                        [d EXCEPT !.daily = UpdateDaily(@, now, category, carbon)],
                        st, vw, category, type, carbon)

(***************************************************************************)
(* loadDemoData.  draw[i] holds the three Math.random() expressions of     *)
(* loop index i (transport, food, energy), before rounding.                *)
(***************************************************************************)
\* +x.toFixed(1), parseFloat(x.toFixed(1))
Round1(x) == parseFloat(x.s, toFixed1(x), 1)

DemoBucket(t) ==
    [transport |-> Round1(t.transport),
     food |-> Round1(t.food),
     energy |-> Round1(t.energy),
     total |-> Round1(fadd(fadd(t.transport, t.food), t.energy))]

DemoSamples ==
    << [category |-> "transport", type |-> "bike", n |-> 0],
       [category |-> "food", type |-> "vegetarian", n |-> 5],
       [category |-> "transport", type |-> "bus", n |-> 8],
       [category |-> "food", type |-> "chicken", n |-> 18],
       [category |-> "energy", type |-> "laundry", n |-> 6] >>

DemoStats(v) ==
    IF v = "simple"
    THEN [logged |-> 25, ecoChoices |-> 10]
    ELSE [totalLogged |-> 28, ecoChoices |-> 12, bikeTrips |-> 6, plantMeals |-> 8]

\* for (let i = 6; i >= 0; i--): the first index of the loop
DemoBack == 6

demoData(v, now, draw) ==
    [daily |-> [k \in (now - DemoBack)..now |-> DemoBucket(draw[now - k])],
     activities |-> [i \in 1..Len(DemoSamples) |->
                        Activity(v, now, DemoSamples[i].category, DemoSamples[i].type,
                                 parseFloat(0, DemoSamples[i].n, 1))],
     stats |-> DemoStats(v)]

\* data = demo; saveData(); then the refresh calls
loadDemoData(v, q, now, d, st, vw, draw) ==
    Persist(v, q, now, demoData(v, now, draw), st, vw)

(***************************************************************************)
(* Inputs.                                                                 *)
(***************************************************************************)
\* The log buttons: data-cat / data-category, data-type, and the decimal text
\* of data-co2 / data-carbon as sign, digits and number of decimals.
Buttons ==
    { [category |-> "transport", type |-> "car", s |-> 0, n |-> 23, scale |-> 1],
      [category |-> "food", type |-> "vegan", s |-> 0, n |-> 3, scale |-> 1],
      [category |-> "transport", type |-> "bike", s |-> 0, n |-> 0, scale |-> 0],
      [category |-> "energy", type |-> "solar", s |-> 1, n |-> 5, scale |-> 1],
      [category |-> "water", type |-> "tap", s |-> 0, n |-> 1, scale |-> 1],
      [category |-> "", type |-> "car", s |-> 0, n |-> 23, scale |-> 1],
      [category |-> "transport", type |-> "", s |-> 0, n |-> 23, scale |-> 1] }

\* Outcomes of the random draws: values of Math.random() * 3 + 0.5,
\* Math.random() * 4 + 1 and Math.random() * 2 + 0.3
DrawA == [transport |-> parseFloat(0, 54, 2), food |-> parseFloat(0, 104, 2),
          energy |-> parseFloat(0, 34, 2)]
DrawB == [transport |-> parseFloat(0, 2, 0), food |-> parseFloat(0, 3, 0),
          energy |-> parseFloat(0, 1, 0)]
DemoDraws ==
    { [i \in 0..DemoBack |-> DrawA],
      [i \in 0..DemoBack |-> IF i % 2 = 0 THEN DrawA ELSE DrawB] }

\* An earlier session on day 0, from an empty store: a car trip, a vegan meal,
\* then bicycle rides.
Filler(i) ==
    IF i = 1 THEN [category |-> "transport", type |-> "car", carbon |-> parseFloat(0, 23, 1)]
    ELSE IF i = 2 THEN [category |-> "food", type |-> "vegan", carbon |-> parseFloat(0, 3, 1)]
    ELSE [category |-> "transport", type |-> "bike", carbon |-> Zero]

Entry(now, category, type, carbon) ==
    [date |-> now, category |-> category, type |-> type, carbon |-> carbon]

\* The earlier session after one more call
Logged(p, f, r) ==
    [data |-> r.data, storage |-> r.storage, view |-> r.view,
     ledger |-> Append(p.ledger, Entry(0, f.category, f.type, f.carbon))]

\* One call of the earlier session, the i-th
PriorCall(v, p, i) ==
    Logged(p, Filler(i),
           logActivity(v, FALSE, 0, p.data, p.storage, p.view,
                       Filler(i).category, Filler(i).type, Filler(i).carbon))

\* Calls i..j of the earlier session, in order: the later half starts from
\* the state the earlier half left, once its calls are in the ledger
RECURSIVE PriorCalls(_, _, _, _)
RECURSIVE PriorRest(_, _, _, _)
PriorCalls(v, p, i, j) ==
    IF i > j THEN p
    ELSE IF i = j THEN PriorCall(v, p, i)
    ELSE PriorRest(v, PriorCalls(v, p, i, (i + j) \div 2), ((i + j) \div 2) + 1, j)

PriorRest(v, p, i, j) ==
    IF Len(p.ledger) = i - 1 THEN PriorCalls(v, p, i, j) ELSE p

PriorSession(v, n) ==
    PriorCalls(v, [data |-> defaultData(v), storage |-> NoItem, view |-> BlankView,
                   ledger |-> <<>>], 1, n)

Members == {"daily", "activities", "stats"}

\* JSON texts that parse but lack members of the state
Malformed(v) ==
    { [kind |-> "json", val |-> [f \in S |-> defaultData(v)[f]]] :
        S \in (SUBSET Members) \ {Members} }

\* Lengths of the earlier session: the list one short of full, and full
SeedSizes(v) == {Cap(v) - 1, Cap(v)}

(***************************************************************************)
(* The state machine.                                                      *)
(***************************************************************************)
NoOp == [op |-> "load", category |-> "", type |-> "", carbon |-> Zero, end |-> "done", n |-> 0]

\* The page loads: let data = loadData(), then the DOMContentLoaded refresh
Loaded(v, q, now, st, led, org) ==
    /\ variant = v
    /\ quota = q
    /\ today = now
    /\ storage = st
    /\ ledger = led
    /\ origin = org
    /\ data = loadData(v, st)
    /\ view = RunSteps(InitSteps(v), 1, v, loadData(v, st), now, BlankView).view
    /\ lastOp = NoOp

\* The page loads on what an earlier session p left in the store
Resumed(v, q, now, p) == Loaded(v, q, now, p.storage, p.ledger, "saved")

\* The day of the page load: that of the earlier session (day 0), or the first
\* day whose demo week no longer reaches back to it
LoadDays == {0, DemoBack + 1}

Init ==
    \E v \in Variants, q \in BOOLEAN :
        \/ \E st \in {NoItem, BadText} : Loaded(v, q, 0, st, <<>>, st.kind)
        \/ \E st \in Malformed(v) : Loaded(v, q, 0, st, <<>>, "malformed")
        \/ \E n \in SeedSizes(v), now \in LoadDays : Resumed(v, q, now, PriorSession(v, n))

\* The handler returns: what it left is the state, and the call is on record
Return(op, category, type, carbon, r) ==
    /\ data' = r.data
    /\ storage' = r.storage
    /\ view' = r.view
    /\ lastOp' = [op |-> op, category |-> category, type |-> type, carbon |-> carbon,
                  end |-> r.end, n |-> lastOp.n + 1]
    /\ ledger' = IF op = "loadDemoData" THEN <<>>
                 ELSE IF r.end \in {"done", "QuotaExceededError"}
                 THEN Append(ledger, Entry(today, category, type, carbon))
                 ELSE ledger
    /\ origin' = IF op = "loadDemoData" THEN "demo" ELSE origin

\* the click listener of a log button
Click(b) ==
    /\ lastOp.n < MaxSteps
    /\ Return("logActivity", b.category, b.type, parseFloat(b.s, b.n, b.scale),
              logActivity(variant, quota, today, data, storage, view,
                          b.category, b.type, parseFloat(b.s, b.n, b.scale)))
    /\ UNCHANGED <<variant, quota, today>>

\* the keydown listener: Ctrl+D
CtrlD(draw) ==
    /\ lastOp.n < MaxSteps
    /\ Return("loadDemoData", "", "", Zero,
              loadDemoData(variant, quota, today, data, storage, view, draw))
    /\ UNCHANGED <<variant, quota, today>>

\* the UTC date changes
Midnight ==
    /\ lastOp.n < MaxSteps
    /\ today' = today + 1
    /\ lastOp' = [NoOp EXCEPT !.op = "midnight", !.n = lastOp.n + 1]
    /\ UNCHANGED <<variant, quota, data, storage, view, ledger, origin>>

Next ==
    \/ \E b \in Buttons : Click(b)
    \/ \E draw \in DemoDraws : CtrlD(draw)
    \/ Midnight

Spec == Init /\ [][Next]_vars

(***************************************************************************)
(* Properties.  The ledger holds, oldest first, every record call whose    *)
(* three updates ran; it is complete (every call since the empty state is  *)
(* in it) when the page loaded on nothing, on unreadable text or on what   *)
(* an earlier session of record calls had saved, and no demo data was      *)
(* loaded since.                                                           *)
(***************************************************************************)
RecordsOnly == origin \in {"absent", "text", "saved"}

\* a == b on two Numbers
NumEq(a, b) ==
    /\ a.k = "num"
    /\ b.k = "num"
    /\ (a = b \/ (IsZero(a) /\ IsZero(b)))

Categories == {"transport", "food", "energy"}

\* The last event was a record call that the handler did not turn away
Recorded == lastOp.op = "logActivity" /\ lastOp.end \in {"done", "QuotaExceededError"}

\* A step that is a record call the handler did not turn away
RecordStep ==
    /\ lastOp'.n = lastOp.n + 1
    /\ lastOp'.op = "logActivity"
    /\ lastOp'.end \in {"done", "QuotaExceededError"}

\* C1: after record calls alone, from the empty state and with the categories
\* the buckets are made for, every bucket of daily has
\* total == transport + food + energy.
C1_TotalIsSum ==
    (RecordsOnly /\ \A i \in 1..Len(ledger) : ledger[i].category \in Categories)
        => \A k \in DOMAIN data.daily :
              NumEq(data.daily[k].total,
                    fadd(fadd(data.daily[k].transport, data.daily[k].food),
                         data.daily[k].energy))

Min(a, b) == IF a < b THEN a ELSE b

\* The carbon figure and the day of a list entry (co2, time / carbon, date)
Amount(a) == IF Has(a, "co2") THEN a.co2 ELSE a.carbon
Day(a) == IF Has(a, "time") THEN a.time ELSE a.date

\* List entry a is the record call e of the ledger
SameEvent(a, e) ==
    /\ a.category = e.category
    /\ a.type = e.type
    /\ Amount(a) = e.carbon
    /\ Day(a) = e.date

\* acts is the list of the record calls led, newest first, cut to the cap
NewestFirst(acts, led) ==
    /\ Len(acts) = Min(Len(led), Cap(variant))
    /\ \A i \in 1..Len(acts) : SameEvent(acts[i], led[Len(led) + 1 - i])

\* C2: after record calls alone the list is no longer than CAP and holds
\* exactly the CAP most recent record calls, the most recent first.
C2_CapNewestFirst ==
    RecordsOnly =>
        /\ Len(data.activities) <= Cap(variant)
        /\ NewestFirst(data.activities, ledger)

\* more calls were recorded than the list holds, and the last one was dropped from
\* its far end
C2_Witness ==
    /\ RecordsOnly
    /\ Recorded
    /\ Len(ledger) > Cap(variant)
    /\ Len(data.activities) = Cap(variant)
    /\ lastOp.type = "car"
    /\ data.activities[1].type = "car"

\* C3: each record call the handler does not turn away adds exactly 1 to
\* stats.logged (totalLogged), and adds exactly 1 to stats.ecoChoices if and
\* only if its carbon figure is <= 0; otherwise ecoChoices stays as it was.
C3_CountsEachRecord ==
    [][RecordStep =>
          /\ data'.stats[LoggedKey(variant)] = data.stats[LoggedKey(variant)] + 1
          /\ data'.stats.ecoChoices =
                 data.stats.ecoChoices +
                 (IF LeZero(lastOp'.carbon) THEN 1 ELSE 0)]_vars

\* the first record call of a fresh state, with a figure of exactly zero,
\* counted as logged and as an eco choice
C3_Witness ==
    /\ origin = "absent"
    /\ Recorded
    /\ lastOp.n = 1
    /\ lastOp.carbon = Zero
    /\ data.stats[LoggedKey(variant)] = 1
    /\ data.stats.ecoChoices = 1

\* The sum, in call order, of the carbon figures of the record calls i..j of
\* led made on day k, added onto acc (NaN once acc is NaN)
RECURSIVE SumOn(_, _, _, _, _)
SumOn(acc, led, k, i, j) ==
    IF IsNaN(acc) \/ i > j THEN acc
    ELSE IF i = j THEN (IF led[i].date = k THEN fadd(acc, led[i].carbon) ELSE acc)
    ELSE SumOn(SumOn(acc, led, k, i, (i + j) \div 2), led, k, ((i + j) \div 2) + 1, j)

\* The days on which record calls of led were made
DaysOf(led) == {led[i].date : i \in 1..Len(led)}

\* The sum of f over the days of set S, ascending
RECURSIVE SumDays(_, _)
SumDays(f, S) ==
    IF S = {} THEN Zero
    ELSE LET k == CHOOSE x \in S : \A y \in S : y <= x
         IN  fadd(SumDays(f, S \ {k}), f[k])

\* daily d carries every record call of led: a bucket for each day with a
\* call and for no other, its total the sum of that day's figures
CarriesAll(d, led) ==
    /\ DOMAIN d = DaysOf(led)
    /\ \A k \in DOMAIN d : NumEq(d[k].total, SumOn(Zero, led, k, 1, Len(led)))

\* C4: after record calls alone, more of them than the list retains or not,
\* the totals of daily add up to the carbon figures of every record call
\* ever made (day by day, each day in call order), not only of those still
\* in the list.
C4_TotalsSurviveTrimming ==
    RecordsOnly =>
        /\ CarriesAll(data.daily, ledger)
        /\ NumEq(SumDays([k \in DOMAIN data.daily |-> data.daily[k].total],
                         DOMAIN data.daily),
                 SumDays([k \in DaysOf(ledger) |-> SumOn(Zero, ledger, k, 1, Len(ledger))],
                         DaysOf(ledger)))

\* more record calls than the list retains, with a positive figure among
\* those dropped from it
C4_Witness ==
    /\ RecordsOnly
    /\ Recorded
    /\ Len(ledger) > Len(data.activities)
    /\ ~IsZero(ledger[1].carbon)
    /\ ~IsZero(lastOp.carbon)

\* The record calls of led with a carbon figure <= 0
EcoCount(led) == Cardinality({i \in 1..Len(led) : LeZero(led[i].carbon)})

\* The state d (in memory, or as persisted) reflects exactly the record calls
\* led in its buckets, in its list and in its counters
Reflects(d, led) ==
    /\ CarriesAll(d.daily, led)
    /\ NewestFirst(d.activities, led)
    /\ d.stats[LoggedKey(variant)] = Len(led)
    /\ d.stats.ecoChoices = EcoCount(led)

\* Every part of the page drawn so far shows the record calls led, the
\* dashboard as of day k
PageShows(vw, led, k) ==
    /\ "dashboard" \in vw.drawn => NumEq(vw.today.total, SumOn(Zero, led, k, 1, Len(led)))
    /\ "list" \in vw.drawn =>
           /\ Len(vw.list) = Min(Len(led), RecentShown)
           /\ \A i \in 1..Len(vw.list) : SameEvent(vw.list[i], led[Len(led) + 1 - i])
    /\ "stats" \in vw.drawn => vw.stats.ecoChoices = EcoCount(led)

\* How many record calls there can have been when something was last written
\* or drawn: from the count at page load to the count now
Counts == {n \in 0..Len(ledger) : n >= Len(ledger) - lastOp.n}

\* C5: what a reader of the state observes (the persistence write in the
\* stored item, the dashboard, the list and the counters on the page) always
\* reflects one and the same set of record calls in the day bucket, in the
\* list and in the counters: never a record call in one and not in another.
C5_ReadersSeeWholeRecords ==
    RecordsOnly =>
        /\ Reflects(data, ledger)
        /\ storage.kind = "json" =>
               \E n \in Counts : Reflects(storage.val, SubSeq(ledger, 1, n))
        /\ \E n \in Counts, k \in 0..today : PageShows(view, SubSeq(ledger, 1, n), k)

\* a record call was just persisted and drawn, all three parts of the page
C5_Witness ==
    /\ RecordsOnly
    /\ lastOp.op = "logActivity"
    /\ lastOp.end = "done"
    /\ ~quota
    /\ view.drawn = {"dashboard", "list", "stats"}
    /\ Reflects(storage.val, ledger)
    /\ PageShows(view, ledger, today)
    /\ Len(ledger) > 0

\* A step that is a record call with an empty category or an empty type
EmptyArgStep ==
    /\ lastOp'.n = lastOp.n + 1
    /\ lastOp'.op = "logActivity"
    /\ (lastOp'.category = "" \/ lastOp'.type = "")

\* C6: a record call whose category or type is missing or empty is aborted
\* silently: daily, activities and stats stay as they were and nothing is
\* persisted.
C6_EmptyArgsAborted ==
    [][EmptyArgStep => (data' = data /\ storage' = storage)]_vars

\* C7: whatever is stored (nothing, text that does not parse, or JSON that
\* parses to something lacking members of the state), the page load yields
\* the freshly initialised state, and a record call made afterwards does not
\* end in an uncaught error.
C7_LoadNeverFails ==
    /\ (origin \in {"absent", "text", "malformed"} /\ lastOp.n = 0)
           => data = defaultData(variant)
    /\ lastOp.op = "logActivity" => lastOp.end # "TypeError"

\* C8: a failing write is never fatal to a record call: the call does not
\* end in the exception of the write, the state in memory is updated, and
\* the refresh calls after the write still run on it.
C8_FailedWriteNotFatal ==
    (quota /\ origin # "malformed" /\ lastOp.op = "logActivity" /\ lastOp.end # "rejected")
        => /\ lastOp.end = "done"
           /\ view.drawn = {"dashboard", "list", "stats"}
           /\ view.list = Take(data.activities, RecentShown)
           /\ view.today = getBucket(data, today)

\* C9, as claimed: across record calls and demo-data loads, stats.logged and
\* stats.ecoChoices never decrease from one state to the next.
C9_StatsNeverDecrease ==
    [][(Has(data, "stats") /\ Has(data', "stats"))
          => /\ data'.stats[LoggedKey(variant)] >= data.stats[LoggedKey(variant)]
             /\ data'.stats.ecoChoices >= data.stats.ecoChoices]_vars

\* A step that is a demo-data load
DemoStep == lastOp'.n = lastOp.n + 1 /\ lastOp'.op = "loadDemoData"

\* C9, amended: a record call never decreases stats.logged or
\* stats.ecoChoices, and nothing but a demo-data load does: the load sets
\* them to its fixed figures (25 and 10; 28 and 12 for totalLogged and
\* ecoChoices in the full variant), whatever they were.
C9_MonotoneButForDemo ==
    [][/\ (~DemoStep /\ Has(data, "stats"))
             => /\ Has(data', "stats")
                /\ data'.stats[LoggedKey(variant)] >= data.stats[LoggedKey(variant)]
                /\ data'.stats.ecoChoices >= data.stats.ecoChoices
       /\ DemoStep
             => /\ data'.stats[LoggedKey(variant)] = (IF variant = "simple" THEN 25 ELSE 28)
                /\ data'.stats.ecoChoices = (IF variant = "simple" THEN 10 ELSE 12)]_vars

\* a record call with an eco choice, counted on top of the figures a
\* demo-data load had set
C9_Witness ==
    /\ origin = "demo"
    /\ Recorded
    /\ LeZero(lastOp.carbon)
    /\ data.stats[LoggedKey(variant)] = (IF variant = "simple" THEN 26 ELSE 29)
    /\ data.stats.ecoChoices = (IF variant = "simple" THEN 11 ELSE 13)

\* A step that is a record call which got as far as the bucket
BucketStep ==
    /\ lastOp'.n = lastOp.n + 1
    /\ lastOp'.op = "logActivity"
    /\ lastOp'.end # "rejected"

\* From this state to the next the buckets are kept: every date key stays,
\* the buckets of other days stay as they are, a new key is the current day
\* and comes with a record call, whose figure starts the total of a new
\* bucket and is added onto the total of an existing one
BucketsKept ==
    /\ Has(data', "daily")
    /\ \A k \in DOMAIN data.daily :
           /\ k \in DOMAIN data'.daily
           /\ (k # today \/ ~BucketStep) => data'.daily[k] = data.daily[k]
    /\ \A k \in DOMAIN data'.daily \ DOMAIN data.daily : k = today /\ BucketStep
    /\ BucketStep =>
           /\ today \in DOMAIN data'.daily
           /\ NumEq(data'.daily[today].total,
                    fadd(getBucket(data, today).total, lastOp'.carbon))

MonthStarts == <<0, 31, 59, 90, 120, 151, 181, 212, 243, 273, 304, 334>>

\* getMonth() + 1 of a day
MonthOf(day) == Cardinality({i \in 1..Len(MonthStarts) : MonthStarts[i] <= day})

\* Time zones: the offsets from UTC in hours, and the instants between which
\* the summer offset applies
UTCZone == [name |-> "UTC", winter |-> 0, summer |-> 0, from |-> 0, to |-> 0]
Toronto == [name |-> "America/Toronto", winter |-> -5, summer |-> -4,
            from |-> 67 * 24 + 7, to |-> 305 * 24 + 6]
Tokyo == [name |-> "Asia/Tokyo", winter |-> 9, summer |-> 9, from |-> 0, to |-> 0]
Zones == {UTCZone, Toronto, Tokyo}

Offset(z, t) == IF z.from <= t /\ t < z.to THEN z.summer ELSE z.winter

\* LocalTime(t)
LocalTime(z, t) == t + Offset(z, t)

\* UTC(t): a local time that occurs twice or not at all is read with the
\* offset in force before the transition
UTC(z, lt) ==
    IF Offset(z, lt - z.summer) = z.summer THEN lt - z.summer
    ELSE lt - z.winter

\* new Date().toISOString().split('T')[0]
getTodayKey(t) == t \div 24

\* d = new Date(); d.setDate(d.getDate() - i); d.toISOString().split('T')[0]
DaysAgoKey(z, t, i) == UTC(z, LocalTime(z, t) - 24 * i) \div 24

\* new Date(now.getFullYear(), now.getMonth(), 1), as an instant
MonthStart(z, t) == UTC(z, 24 * MonthStarts[MonthOf(LocalTime(z, t) \div 24)])

\* new Date(dateKey), as an instant
ParseKey(key) == 24 * key

(***************************************************************************)
(* The readers of daily, by the value each computes.                       *)
(***************************************************************************)
\* x || 0 on a Number or null
OrZero(a) == IF a.k \in {"nan", "null"} \/ IsZero(a) THEN Zero ELSE a

\* for (let i = 6; i >= 0; i--)
WeekBack == 6

\* getLast7DaysData: values.push(daily[key]?.total || 0), oldest day first
getLast7DaysData(daily, z, t) ==
    [j \in 1..(WeekBack + 1) |->
        IF DaysAgoKey(z, t, WeekBack + 1 - j) \in DOMAIN daily
        THEN OrZero(daily[DaysAgoKey(z, t, WeekBack + 1 - j)].total)
        ELSE Zero]

\* the running sum of total || 0 over the keys, in key order
RECURSIVE SumTotals(_, _, _)
SumTotals(daily, keys, acc) ==
    IF keys = {} \/ IsNaN(acc) THEN acc
    ELSE LET k == CHOOSE m \in keys : \A o \in keys : m <= o
         IN  SumTotals(daily, keys \ {k}, fadd(acc, OrZero(daily[k].total)))

\* The functions that average total over the recorded days
GuardedSites == {"updateImpact", "updateResources", "generateSummary", "generateReport"}
DefaultedSites == {"updateImpactMetrics", "updateLocalStats", "updateGoals"}
Sites == GuardedSites \cup DefaultedSites

\* averageDaily with neither the guard nor the default of 1: total / days
averageUnguarded(site, daily) ==
    fdiv(SumTotals(daily, DOMAIN daily, Zero), FromNat(Cardinality(DOMAIN daily)))

\* averageDaily with the days of a week for the number of recorded days
averageOverWeek(site, daily) ==
    fdiv(SumTotals(daily, DOMAIN daily, Zero), FromNat(WeekBack + 1))

\* days > 0 ? total / days : 0   and   total / (days || 1)
averageDaily(site, daily) ==
    IF site \in GuardedSites
    THEN (IF Cardinality(DOMAIN daily) > 0
          THEN fdiv(SumTotals(daily, DOMAIN daily, Zero), FromNat(Cardinality(DOMAIN daily)))
          ELSE Zero)
    ELSE fdiv(SumTotals(daily, DOMAIN daily, Zero),
              FromNat(IF Cardinality(DOMAIN daily) = 0 THEN 1 ELSE Cardinality(DOMAIN daily)))

\* kg CO2 a tree absorbs in a year, and the days and months the dashboards
\* scale by
TreesPerYear == 21
DaysPerMonth == 30
MonthsPerYear == 12

\* Carbon.averages.kwc, the 14.2 of the dashboards
RegionalAvg == parseFloat(0, 142, 1)

\* Math.ceil(monthlyTotal * 12 / 21)
treesNeeded(monthlyTotal) ==
    ceil(fdiv(fmul(monthlyTotal, FromNat(MonthsPerYear)), FromNat(TreesPerYear)))

\* (avg - 14.2) / 14.2 * 100
vsAverage(avg) ==
    fmul(fdiv(fsub(avg, RegionalAvg), RegionalAvg), FromNat(100))

\* What a dashboard shows from an average and a monthly total: the trees
\* figure, and the comparison unless avg === 0 puts '--' in its place
Impact(avg, monthlyTotal) ==
    [avg |-> avg,
     monthlyTotal |-> monthlyTotal,
     trees |-> treesNeeded(monthlyTotal),
     dashes |-> IsZero(avg),
     percent |-> IF IsZero(avg) THEN Zero ELSE vsAverage(avg)]

\* updateImpact (simple variant): monthlyTotal = avg * 30
impactOf(avg) == Impact(avg, fmul(avg, FromNat(DaysPerMonth)))

updateImpact(daily) == impactOf(averageDaily("updateImpact", daily))

\* the keys updateImpactMetrics adds up: date >= monthStart
MonthScope(daily, z, t) == {k \in DOMAIN daily : ParseKey(k) >= MonthStart(z, t)}

\* kg CO2 per km driven
CarPerKm == parseFloat(0, 21, 2)

\* Math.round(monthlyTotal / 0.21), and Carbon.toCarKm
carKm(carbonKg) == round(fdiv(carbonKg, CarPerKm))

\* the figures of updateImpactMetrics: those of Impact and the car kilometres
ImpactMetrics(avg, monthlyTotal) ==
    Impact(avg, monthlyTotal) @@ [carKm |-> carKm(monthlyTotal)]

\* updateImpactMetrics (full variant)
updateImpactMetrics(daily, z, t) ==
    ImpactMetrics(averageDaily("updateImpactMetrics", daily),
                  SumTotals(daily, MonthScope(daily, z, t), Zero))

\* (todayData.total - yesterdayData.total) / yesterdayData.total * 100
changeOf(todayTotal, yesterdayTotal) ==
    fmul(fdiv(fsub(todayTotal, yesterdayTotal), yesterdayTotal), FromNat(100))

\* updateDashboard (full variant): the day-over-day change, written when
\* yesterday has a bucket
dailyChange(daily, z, t) ==
    IF DaysAgoKey(z, t, 1) \in DOMAIN daily
    THEN [shown |-> TRUE,
          change |-> changeOf(getBucket([daily |-> daily], getTodayKey(t)).total,
                              daily[DaysAgoKey(z, t, 1)].total)]
    ELSE [shown |-> FALSE, change |-> Zero]

(***************************************************************************)
(* The reader calls: what each computes, and the daily map it leaves.      *)
(***************************************************************************)
Reading(out, daily) == [out |-> out, daily |-> daily]

\* todayData read with the zero bucket stored under a key that had none
todayDataStored(daily, key) ==
    Reading(getBucket([daily |-> daily], key),
            IF key \in DOMAIN daily THEN daily ELSE (key :> ZeroBucket) @@ daily)

\* const todayData = daily[today] || { transport: 0, food: 0, energy: 0, total: 0 }
todayData(daily, key) == Reading(getBucket([daily |-> daily], key), daily)

\* weekly with a zero bucket stored for every day of the window that had none
weeklyFilled(daily, z, t) ==
    Reading(getLast7DaysData(daily, z, t),
            [k \in DOMAIN daily \cup {DaysAgoKey(z, t, i) : i \in 0..WeekBack} |->
                IF k \in DOMAIN daily THEN daily[k] ELSE ZeroBucket])

\* getLast7DaysData()
weekly(daily, z, t) == Reading(getLast7DaysData(daily, z, t), daily)

\* updateResources, updateLocalStats, updateGoals, Export.generateSummary,
\* Export.generateReport: the average
averaged(site, daily) == Reading(averageDaily(site, daily), daily)

\* updateDashboard after the read r of today's bucket: the change (full
\* variant), then updateImpact / updateImpactMetrics
dashboardOn(v, r, z, t) ==
    Reading([today |-> r.out,
             change |-> IF v = "full" THEN dailyChange(r.daily, z, t)
                        ELSE [shown |-> FALSE, change |-> Zero],
             scope |-> IF v = "full" THEN MonthScope(r.daily, z, t) ELSE DOMAIN r.daily,
             impact |-> IF v = "full" THEN updateImpactMetrics(r.daily, z, t)
                        ELSE updateImpact(r.daily)],
            r.daily)

dashboard(v, daily, z, t) == dashboardOn(v, todayData(daily, getTodayKey(t)), z, t)

(***************************************************************************)
(* The readers on a page that has just loaded.  The store holds what       *)
(* earlier sessions left: one click on each day of a diary, the days given *)
(* as days before the load.                                                *)
(***************************************************************************)
\* Bounds of the diaries
MaxDiary == 2       \* recorded days, unless every day of DiaryOffsets is

\* Days before the load a diary can hold: days of the week shown, and one
\* just outside it
DiaryOffsets == {0, 1, 2, WeekBack + 1}

Diaries ==
    {S \in SUBSET DiaryOffsets : Cardinality(S) <= MaxDiary} \cup {DiaryOffsets}

\* What the user logs: always the same button, or a car trip and a bicycle
\* ride on alternate days
Habits == {"bike", "solar", "mixed"}

ButtonOf(type) == CHOOSE b \in Buttons : b.type = type /\ b.category # ""

HabitButton(habit, o) ==
    IF habit = "mixed" THEN ButtonOf(IF o % 2 = 0 THEN "car" ELSE "bike")
    ELSE ButtonOf(habit)

\* The click of day now - o, on what the days before left
DiaryClick(v, now, o, b, p) ==
    logActivity(v, FALSE, now - o, p.data, p.storage, p.view,
                b.category, b.type, parseFloat(b.s, b.n, b.scale))

\* The clicks of the days offs, oldest first
RECURSIVE Diary(_, _, _, _, _)
Diary(v, now, offs, habit, p) ==
    IF offs = {} \/ p.end # "done" THEN p
    ELSE Diary(v, now, offs \ {CHOOSE m \in offs : \A x \in offs : m >= x}, habit,
               DiaryClick(v, now, CHOOSE m \in offs : \A x \in offs : m >= x,
                          HabitButton(habit, CHOOSE m \in offs : \A x \in offs : m >= x), p))

\* Days of the page load: 2025-01-10, 2025-11-01 and 2025-11-04
LoadDates == {9, 304, 307}

\* Hours of the UTC day at which a reader runs
Hours == {0, 12}

ReaderInit ==
    \E v \in Variants, now \in LoadDates, offs \in Diaries, habit \in Habits :
        Loaded(v, FALSE, now,
               Diary(v, now, offs, habit,
                     Halt(defaultData(v), NoItem, BlankView, "done")).storage,
               <<>>, IF offs = {} THEN "absent" ELSE "saved")

\* A reader returns: its value is on record, the daily map is what it left
Answer(op, arg, r) ==
    /\ lastOp' = [op |-> op, arg |-> arg, out |-> r.out]
    /\ data' = [data EXCEPT !.daily = r.daily]
    /\ UNCHANGED <<variant, quota, today, storage, view, ledger, origin>>

Clock(h) == 24 * today + h

UpdateDashboard(z, h) ==
    Answer("updateDashboard", [zone |-> z.name, hour |-> h],
           dashboard(variant, data.daily, z, Clock(h)))

GetLast7DaysData(z, h) ==
    Answer("getLast7DaysData", [zone |-> z.name, hour |-> h],
           weekly(data.daily, z, Clock(h)))

\* The averaging functions a page of the variant calls outside updateDashboard
AverageSites(v) ==
    {"generateSummary", "generateReport"}
        \cup (IF v = "simple" THEN {"updateResources"} ELSE {"updateLocalStats", "updateGoals"})

Average(site) ==
    Answer("average", [site |-> site], averaged(site, data.daily))

ReaderNext ==
    \/ \E z \in Zones, h \in Hours : UpdateDashboard(z, h)
    \/ \E z \in Zones, h \in Hours : GetLast7DaysData(z, h)
    \/ \E site \in AverageSites(variant) : Average(site)

Readers == ReaderInit /\ [][ReaderNext]_vars

(***************************************************************************)
(* Properties of the readers.                                              *)
(***************************************************************************)
\* C11: the read of a date key's bucket in updateDashboard returns the stored
\* bucket when the key has one and the bucket of four zeros when it has none,
\* and leaves daily with exactly the keys it had.
C11_ReadReturnsStoredOrZero ==
    [][lastOp'.op = "updateDashboard" =>
          /\ today \in DOMAIN data.daily => lastOp'.out.today = data.daily[today]
          /\ today \notin DOMAIN data.daily =>
                 lastOp'.out.today = [transport |-> Zero, food |-> Zero,
                                      energy |-> Zero, total |-> Zero]
          /\ DOMAIN data'.daily = DOMAIN data.daily]_vars

\* updateDashboard has read the bucket of a day without one, on a page that
\* holds other days: it got the zero bucket and the day still has no key
C11_Witness ==
    /\ lastOp.op = "updateDashboard"
    /\ today \notin DOMAIN data.daily
    /\ DOMAIN data.daily # {}
    /\ IsZero(lastOp.out.today.total)

\* C12: getLast7DaysData and the functions that average total over the
\* recorded days (updateImpact / updateImpactMetrics inside updateDashboard,
\* updateResources, updateLocalStats, updateGoals, Export.generateSummary,
\* Export.generateReport) leave daily as it was: the same keys, and under
\* each key the same bucket, field by field.
C12_AggregationLeavesDaily ==
    [][lastOp'.op \in {"getLast7DaysData", "average", "updateDashboard"} =>
          /\ DOMAIN data'.daily = DOMAIN data.daily
          /\ \A k \in DOMAIN data.daily :
                 /\ DOMAIN data'.daily[k] = DOMAIN data.daily[k]
                 /\ \A f \in DOMAIN data.daily[k] : data'.daily[k][f] = data.daily[k][f]]_vars

\* getLast7DaysData has run on a page that holds some recorded days and lacks
\* others of the week: it returned seven figures, zeros among them and a
\* figure that is not zero, and daily has only the recorded days
C12_Witness ==
    /\ lastOp.op = "getLast7DaysData"
    /\ Len(lastOp.out) = WeekBack + 1
    /\ \E j \in 1..Len(lastOp.out) : ~IsZero(lastOp.out[j])
    /\ \E j \in 1..Len(lastOp.out) : IsZero(lastOp.out[j])
    /\ DOMAIN data.daily # {}

\* C13: getLast7DaysData returns seven entries, one for each of the seven
\* consecutive days that end at the date of the call (the key getTodayKey
\* returns), oldest first: the j-th is the bucket total of the day
\* 7 - j days before that date, and 0 when the day has no bucket.
C13_SevenConsecutiveDays ==
    [][lastOp'.op = "getLast7DaysData" =>
          /\ Len(lastOp'.out) = WeekBack + 1
          /\ \A j \in 1..(WeekBack + 1) :
                 lastOp'.out[j] =
                     IF today - (WeekBack + 1 - j) \in DOMAIN data.daily
                     THEN data.daily[today - (WeekBack + 1 - j)].total
                     ELSE Zero]_vars

\* q is a Number nearest to a / n, for a finite a and a count 0 < n < Base:
\* q * n is within n half-units of q's last place of a
Quotient(q, a, n) ==
    IF IsZero(a) THEN IsZero(q)
    ELSE /\ q.k = "num"
         /\ q.m # <<>>
         /\ q.s = a.s
         /\ LET e  == IF q.e < a.e THEN q.e ELSE a.e
                qn == BShl(BMulSmall(q.m, n), q.e - e)
                am == BShl(a.m, a.e - e)
            IN  BCmp(BMulSmall(IF BCmp(qn, am) >= 0 THEN BSub(qn, am) ELSE BSub(am, qn), 2),
                     BShl(BFromNat(n), q.e - e)) <= 0

\* the totals of daily, by key
Totals(daily) == [k \in DOMAIN daily |-> daily[k].total]

\* the average a call has on record
AverageOut(op) == IF op.op = "average" THEN op.out ELSE op.out.impact.avg

\* C14: on a daily map with at least one key, each function that averages
\* over all recorded days yields the sum of total over the keys of daily
\* divided by the number of keys (the Number nearest to that quotient).
C14_AverageIsSumOverDays ==
    [][lastOp'.op \in {"average", "updateDashboard"} /\ DOMAIN data.daily # {} =>
          Quotient(AverageOut(lastOp'), SumDays(Totals(data.daily), DOMAIN data.daily),
                   Cardinality(DOMAIN data.daily))]_vars

\* an average was taken over several recorded days whose totals differ, and
\* it is not zero
C14_Witness ==
    /\ lastOp.op = "average"
    /\ \E k, l \in DOMAIN data.daily : data.daily[k].total # data.daily[l].total
    /\ ~IsZero(lastOp.out)

\* C15: on an empty daily map every function that averages over the recorded
\* days returns a result, and the result is the Number 0: not NaN, and no
\* exception in its place.
C15_EmptyAverageIsZero ==
    [][lastOp'.op \in {"average", "updateDashboard"} /\ DOMAIN data.daily = {} =>
          /\ AverageOut(lastOp').k = "num"
          /\ AverageOut(lastOp').m = <<>>]_vars

\* updateLocalStats, which divides by days || 1, has averaged over no days
C15_Witness ==
    /\ lastOp.op = "average"
    /\ lastOp.arg.site = "updateLocalStats"
    /\ DOMAIN data.daily = {}
    /\ IsZero(lastOp.out)

ZoneOf(name) == CHOOSE z \in Zones : z.name = name

\* the local calendar day of a call
LocalDay(op, day) == LocalTime(ZoneOf(op.arg.zone), 24 * day + op.arg.hour) \div 24

\* C16: the keys updateImpactMetrics adds up for the current month are exactly
\* the keys of daily in the calendar month of the date of the call: every
\* recorded day of that month, its first day included, and no day of another
\* month.
C16_MonthScopeIsCalendarMonth ==
    [][lastOp'.op = "updateDashboard" /\ variant = "full" =>
          lastOp'.out.scope =
              {k \in DOMAIN data.daily : MonthOf(k) = MonthOf(LocalDay(lastOp', today))}]_vars

\* a is a finite Number: neither NaN nor an Infinity
Finite(a) == a.k = "num"

\* C17: every average and every percentage a reader computes is a finite
\* Number, never NaN and never Infinity: the averages, the comparison with
\* the regional average, and the day-over-day change of updateDashboard,
\* whatever the totals of today and of the day before.
C17_NoNaNNoInfinity ==
    [][/\ lastOp'.op = "average" => Finite(lastOp'.out)
       /\ lastOp'.op = "updateDashboard" =>
              /\ Finite(lastOp'.out.impact.avg)
              /\ Finite(lastOp'.out.impact.percent)
              /\ Finite(lastOp'.out.change.change)]_vars

(***************************************************************************)
(* The Carbon module (src/unnamed/part_000): functions of their arguments  *)
(* alone.                                                                  *)
(***************************************************************************)
\* const multipliers = { day: 365, month: 12, year: 1 }
Multipliers == [day |-> 365, month |-> 12, year |-> 1]

\* treesToOffset with the multipliers of day and month exchanged
treesToOffsetSwapped(carbonKg, period) ==
    ceil(fdiv(fmul(carbonKg,
                   FromNat(IF period = "day" THEN Multipliers.month
                           ELSE IF period = "month" THEN Multipliers.day ELSE 1)),
              FromNat(TreesPerYear)))

\* treesToOffset: annualCarbon = carbonKg * (multipliers[period] || 1);
\* Math.ceil(annualCarbon / this.equivalents.treesPerYear)
treesToOffset(carbonKg, period) ==
    ceil(fdiv(fmul(carbonKg,
                   FromNat(IF period \in DOMAIN Multipliers THEN Multipliers[period] ELSE 1)),
              FromNat(TreesPerYear)))

\* Carbon.averages
Averages == [canada |-> parseFloat(0, 142, 1), ontario |-> parseFloat(0, 128, 1),
             kwc |-> parseFloat(0, 142, 1), global |-> parseFloat(0, 13, 0)]

\* StatusOf with percentage <= -10 for 'excellent'
StatusInclusive(percentage) ==
    IF ~flt(fneg(FromNat(10)), percentage) THEN "excellent"
    ELSE IF flt(percentage, Zero) THEN "good"
    ELSE IF flt(percentage, FromNat(10)) THEN "average"
    ELSE "high"

\* percentage < -10 ? 'excellent' : percentage < 0 ? 'good' :
\* percentage < 10 ? 'average' : 'high'
StatusOf(percentage) ==
    IF flt(percentage, fneg(FromNat(10))) THEN "excellent"
    ELSE IF flt(percentage, Zero) THEN "good"
    ELSE IF flt(percentage, FromNat(10)) THEN "average"
    ELSE "high"

\* the result object of compareToRegion, from the regional average on
Comparison(userAvg, regionalAvg, difference, percentage) ==
    [userAvg |-> userAvg, regionalAvg |-> regionalAvg, difference |-> difference,
     percentage |-> percentage, status |-> StatusOf(percentage)]

comparisonWith(userAvg, regionalAvg, difference) ==
    Comparison(userAvg, regionalAvg, difference,
               fmul(fdiv(difference, regionalAvg), FromNat(100)))

\* The second argument of a call: a region name, or a number. A number is
\* no key of Carbon.averages.
Named(name) == [kind |-> "name", name |-> name, value |-> Zero]
Given(value) == [kind |-> "number", name |-> "", value |-> value]

\* this.averages[region] || this.averages.kwc
averageOf(region) ==
    IF region.kind = "name" /\ region.name \in DOMAIN Averages
    THEN Averages[region.name] ELSE Averages.kwc

\* compareToRegion: difference = userAvg - regionalAvg
compareToRegion(userAvg, region) ==
    comparisonWith(userAvg, averageOf(region), fsub(userAvg, averageOf(region)))

\* Arguments: decimal literals as sign, digits and number of decimals
Lit(s, n, scale) == [s |-> s, n |-> n, scale |-> scale]
NumberOf(l) == parseFloat(l.s, l.n, l.scale)

Kilos ==
    { Lit(0, 0, 0), Lit(0, 21, 0), Lit(0, 175, 2), Lit(0, 42, 1), Lit(0, 1, 1),
      Lit(0, 23, 1), Lit(0, 1278, 2), Lit(0, 142, 1), Lit(0, 100, 0), Lit(0, 209, 1),
      Lit(0, 211, 1), Lit(0, 42, 0), Lit(0, 5, 2), Lit(1, 5, 1), Lit(1, 1, 0),
      Lit(1, 21, 0), Lit(1, 25, 0), Lit(1, 1, 1) }

Periods == {"day", "month", "year", "week"}

UserAverages ==
    { Lit(0, 1278, 2), Lit(0, 1277, 2), Lit(0, 1279, 2), Lit(0, 142, 1), Lit(0, 1419, 2),
      Lit(0, 1562, 2), Lit(0, 1561, 2), Lit(0, 0, 0), Lit(0, 1, 0), Lit(0, 10, 0),
      Lit(0, 128, 1), Lit(0, 13, 0), Lit(0, 20, 0), Lit(1, 5, 1) }

Regions ==
    { Named("kwc"), Named("canada"), Named("ontario"), Named("global"), Named("mars"),
      Given(parseFloat(0, 142, 1)), Given(parseFloat(0, 128, 1)) }

LibraryInit == Loaded("full", FALSE, 0, NoItem, <<>>, "absent")

TreesToOffset(kg, period) ==
    Answer("treesToOffset", [carbonKg |-> NumberOf(kg), period |-> period],
           Reading(treesToOffset(NumberOf(kg), period), data.daily))

\* the trees-needed figure of the dashboards, from a monthly total
TreesNeeded(kg) ==
    Answer("treesNeeded", [carbonKg |-> NumberOf(kg), period |-> "month"],
           Reading(treesNeeded(NumberOf(kg)), data.daily))

\* Carbon.toCarKm
ToCarKm(kg) ==
    Answer("toCarKm", [carbonKg |-> NumberOf(kg), period |-> ""],
           Reading(carKm(NumberOf(kg)), data.daily))

CompareToRegion(avg, region) ==
    Answer("compareToRegion", [userAvg |-> NumberOf(avg), region |-> region],
           Reading(compareToRegion(NumberOf(avg), region), data.daily))

LibraryNext ==
    \/ \E kg \in Kilos, period \in Periods : TreesToOffset(kg, period)
    \/ \E kg \in Kilos : TreesNeeded(kg)
    \/ \E kg \in Kilos : ToCarKm(kg)
    \/ \E avg \in UserAverages, region \in Regions : CompareToRegion(avg, region)

Library == LibraryInit /\ [][LibraryNext]_vars

(***************************************************************************)
(* Properties of the Carbon module.                                        *)
(***************************************************************************)
\* a number with no fractional part
IsWhole(a) ==
    /\ a.k = "num"
    /\ \/ IsZero(a)
       \/ a.e >= 0
       \/ BShl(BShr(a.m, -a.e), -a.e) = a.m

\* r is the least whole number that is not below x
IsCeilOf(r, x) ==
    /\ IsWhole(r)
    /\ ~flt(r, x)
    /\ flt(fsub(r, FromNat(1)), x)

\* the multiplier the specification gives for a period
StatedMultiplier(period) ==
    IF period = "day" THEN 365 ELSE IF period = "month" THEN 12 ELSE 1

StatedPeriods == {"day", "month", "year"}

\* C18: treesToOffset(carbonKg, period) is the ceiling of carbonKg * m / 21,
\* where m is 365 for a day, 12 for a month and 1 for a year; for a carbon
\* amount of 0 the count is 0 whatever the period, and for 21 kg over a year
\* it is 1.
C18_TreesToOffsetIsCeiling ==
    [][(lastOp'.op = "treesToOffset" /\ lastOp'.arg.period \in StatedPeriods) =>
         /\ IsCeilOf(lastOp'.out,
                     fdiv(fmul(lastOp'.arg.carbonKg,
                               FromNat(StatedMultiplier(lastOp'.arg.period))),
                          FromNat(21)))
         /\ (lastOp'.arg.carbonKg = Zero => lastOp'.out = Zero)
         /\ (lastOp'.arg.carbonKg = FromNat(21) /\ lastOp'.arg.period = "year"
               => lastOp'.out = FromNat(1))]_vars

\* a daily amount whose annual figure is not a multiple of 21 is rounded up
C18_Witness ==
    /\ lastOp.op = "treesToOffset"
    /\ lastOp.arg.period = "day"
    /\ lastOp.arg.carbonKg = parseFloat(0, 23, 1)
    /\ lastOp.out = FromNat(40)

IsNegative(a) == a.k = "num" /\ a.s = 1 /\ ~IsZero(a)

\* C19: the tree count is never negative: treesToOffset is 0 for every
\* negative carbon amount and every period, and the trees-needed figure of
\* the dashboards is 0 whenever the total it is computed from is negative.
C19_TreeCountNeverNegative ==
    [][(lastOp'.op \in {"treesToOffset", "treesNeeded"} /\ IsNegative(lastOp'.arg.carbonKg))
         => IsZero(lastOp'.out)]_vars

\* C20: compareToRegion(userDailyAvg, regionalAvg), called with the regional
\* average as its second argument, returns difference = userDailyAvg -
\* regionalAvg and percentage = difference / regionalAvg * 100; the status is
\* "excellent" exactly when percentage < -10, "good" exactly when
\* -10 <= percentage < 0, "average" exactly when 0 <= percentage < 10 and
\* "high" exactly when percentage >= 10; 12.78 against 14.2, exactly 10%
\* below, is "good".
C20_CompareToGivenAverage ==
    [][(lastOp'.op = "compareToRegion" /\ lastOp'.arg.region.kind = "number") =>
         LET out == lastOp'.out
             pct == out.percentage
             tenth == FromNat(10)
             regionalAvg == lastOp'.arg.region.value
         IN /\ out.difference = fsub(lastOp'.arg.userAvg, regionalAvg)
            /\ pct = fmul(fdiv(out.difference, regionalAvg), FromNat(100))
            /\ out.status = "excellent" <=> fcmp(pct, fneg(tenth)) < 0
            /\ out.status = "good" <=> (fcmp(pct, fneg(tenth)) >= 0 /\ fcmp(pct, Zero) < 0)
            /\ out.status = "average" <=> (fcmp(pct, Zero) >= 0 /\ fcmp(pct, tenth) < 0)
            /\ out.status = "high" <=> fcmp(pct, tenth) >= 0
            /\ (lastOp'.arg.userAvg = parseFloat(0, 1278, 2)
                  /\ regionalAvg = parseFloat(0, 142, 1) => out.status = "good")]_vars

\* the regional average the call compares with: that of the named region,
\* 14.2 for any other second argument
StatedAverage(region) ==
    IF region.kind = "name" /\ region.name = "ontario" THEN parseFloat(0, 128, 1)
    ELSE IF region.kind = "name" /\ region.name = "global" THEN parseFloat(0, 13, 0)
    ELSE parseFloat(0, 142, 1)

\* C20, amended: compareToRegion(userDailyAvg, region) compares with the
\* average of the named region (14.2 for kwc and canada, 12.8 for ontario,
\* 13.0 for global) and with 14.2 for any other second argument; it returns
\* difference = userDailyAvg - regionalAvg and percentage = difference /
\* regionalAvg * 100, with the status brackets as stated, and 12.78 against
\* 14.2 is "good".
C20_CompareToRegionThresholds ==
    [][lastOp'.op = "compareToRegion" =>
         LET out == lastOp'.out
             pct == out.percentage
             tenth == FromNat(10)
         IN /\ out.regionalAvg = StatedAverage(lastOp'.arg.region)
            /\ out.difference = fsub(lastOp'.arg.userAvg, out.regionalAvg)
            /\ pct = fmul(fdiv(out.difference, out.regionalAvg), FromNat(100))
            /\ out.status = "excellent" <=> fcmp(pct, fneg(tenth)) < 0
            /\ out.status = "good" <=> (fcmp(pct, fneg(tenth)) >= 0 /\ fcmp(pct, Zero) < 0)
            /\ out.status = "average" <=> (fcmp(pct, Zero) >= 0 /\ fcmp(pct, tenth) < 0)
            /\ out.status = "high" <=> fcmp(pct, tenth) >= 0
            /\ (lastOp'.arg.userAvg = parseFloat(0, 1278, 2)
                  /\ out.regionalAvg = parseFloat(0, 142, 1) => out.status = "good")]_vars

\* the borderline comparison: 12.78 against 14.2 is -10 percent and "good"
C20_Witness ==
    /\ lastOp.op = "compareToRegion"
    /\ lastOp.arg.userAvg = parseFloat(0, 1278, 2)
    /\ lastOp.arg.region = Given(parseFloat(0, 142, 1))
    /\ lastOp.out.percentage = fneg(FromNat(10))
    /\ lastOp.out.status = "good"

(***************************************************************************)
(* Properties of the estimators, continued.                                *)
(***************************************************************************)
Half == parseFloat(0, 5, 1)

\* r is a whole number nearest to x
IsRoundOf(r, x) ==
    /\ IsWhole(r)
    /\ ~flt(x, fsub(r, Half))
    /\ flt(x, fadd(r, Half))

\* the keys of daily in the calendar month of the date of a call
MonthKeys(op, daily, day) == {k \in DOMAIN daily : MonthOf(k) = MonthOf(LocalDay(op, day))}

\* C21: toCarKmEquivalent(carbonKg) is carbonKg / 0.21 rounded to the nearest
\* integer, and the car-km figure of the dashboard is that function applied
\* to the total of the current month: the sum of the totals of the recorded
\* days of the calendar month of the call.
C21_CarKmOfCurrentMonth ==
    [][lastOp'.op = "updateDashboard" /\ variant = "full" =>
          IsRoundOf(lastOp'.out.impact.carKm,
                    fdiv(SumTotals(data.daily, MonthKeys(lastOp', data.daily, today), Zero),
                         parseFloat(0, 21, 2)))]_vars

(***************************************************************************)
(* The estimators called from a running page: calls of treesToOffset,      *)
(* toCarKm and compareToRegion between the clicks of a session.  Here the  *)
(* ledger also holds every estimator call with its result.                 *)
(***************************************************************************)
Estimators == {"treesToOffset", "toCarKm", "compareToRegion"}

\* an estimator returns: the call and its result are on record; the
\* function wrote nothing
Estimated(op, arg, out) ==
    /\ lastOp.n < MaxSteps + 1
    /\ lastOp' = [op |-> op, arg |-> arg, out |-> out, n |-> lastOp.n + 1]
    /\ ledger' = Append(ledger, [op |-> op, arg |-> arg, out |-> out])
    /\ UNCHANGED <<variant, quota, today, data, storage, view, origin>>

EstimateTrees(kg, period) ==
    Estimated("treesToOffset", [carbonKg |-> NumberOf(kg), period |-> period],
              treesToOffset(NumberOf(kg), period))

\* toCarKm applied to its argument and to what was recorded today
EstimateCarKmOfDay(kg) ==
    Estimated("toCarKm", [carbonKg |-> NumberOf(kg)],
              carKm(fadd(NumberOf(kg), getBucket(data, today).total)))

EstimateCarKm(kg) ==
    Estimated("toCarKm", [carbonKg |-> NumberOf(kg)], carKm(NumberOf(kg)))

EstimateRegion(avg, region) ==
    Estimated("compareToRegion", [userAvg |-> NumberOf(avg), region |-> region],
              compareToRegion(NumberOf(avg), region))

CallKilos == {Lit(0, 23, 1), Lit(1, 1, 0)}
CallPeriods == {"month"}
CallAverages == {Lit(0, 1278, 2)}
CallRegions == {Named("kwc"), Named("ontario")}
CallButtons == {b \in Buttons : b.type \in {"car", "solar"} /\ b.category # ""}

EstimatorInit == \E v \in Variants : Loaded(v, FALSE, 0, NoItem, <<>>, "absent")

EstimatorNext ==
    \/ \E kg \in CallKilos, period \in CallPeriods : EstimateTrees(kg, period)
    \/ \E kg \in CallKilos : EstimateCarKm(kg)
    \/ \E avg \in CallAverages, region \in CallRegions : EstimateRegion(avg, region)
    \/ \E b \in CallButtons : Click(b)

EstimatorCalls == EstimatorInit /\ [][EstimatorNext]_vars

OfCategory(led, category) == SelectSeq(led, LAMBDA e : e.category = category)

\* C23: a record call with a category outside transport, food and energy
\* does not fail: the bucket of the day has a field named by that category,
\* and the field holds the sum of the carbon figures recorded under that
\* category on that date.
C23_UnknownCategoryFieldIsSum ==
    (RecordsOnly /\ lastOp.op = "logActivity"
                 /\ lastOp.category \notin Categories \cup {""} /\ lastOp.type # "") =>
        /\ Recorded
        /\ today \in DOMAIN data.daily
        /\ Has(data.daily[today], lastOp.category)
        /\ NumEq(data.daily[today][lastOp.category],
                 SumOn(Zero, OfCategory(ledger, lastOp.category), today, 1,
                       Len(OfCategory(ledger, lastOp.category))))

(***************************************************************************)
(* The export module (src/js/export.js).  A date key is the text           *)
(* YYYY-MM-DD of a day of 2025; Object.keys lists the keys of daily in     *)
(* the order of their insertion, which is any order here.                  *)
(***************************************************************************)
\* the text of a date key, as year, month and day of the month
DateText(k) == <<2025, MonthOf(k), k - MonthStarts[MonthOf(k)] + 1>>

\* a < b on two date texts, compared from the left as strings are
TextBefore(a, b) ==
    \/ a[1] < b[1]
    \/ a[1] = b[1] /\ a[2] < b[2]
    \/ a[1] = b[1] /\ a[2] = b[2] /\ a[3] < b[3]

\* Array.prototype.sort() on date keys: insert the i-th key into the sorted
\* keys before it
RECURSIVE InsertKey(_, _)
InsertKey(sorted, k) ==
    IF sorted = <<>> THEN <<k>>
    ELSE IF TextBefore(DateText(k), DateText(Head(sorted))) THEN <<k>> \o sorted
    ELSE <<Head(sorted)>> \o InsertKey(Tail(sorted), k)

RECURSIVE sort(_)
sort(keys) == IF keys = <<>> THEN keys ELSE InsertKey(sort(Tail(keys)), Head(keys))

\* x.toFixed(2) for a finite x with |x| < 2^15: the sign and the count of
\* hundredths, the larger count on a tie
toFixed2(x) ==
    IF IsZero(x) THEN [s |-> x.s, n |-> 0]
    ELSE LET t == BMulSmall(x.m, 100)
         IN  IF x.e >= 0 THEN [s |-> x.s, n |-> BToNat(BShl(t, x.e))]
             ELSE LET q    == BShr(t, -x.e)
                      rem  == BSub(t, BShl(q, -x.e))
                      half == BShl(<<1>>, -x.e - 1)
                  IN  [s |-> x.s,
                       n |-> BToNat(q) + (IF BCmp(rem, half) >= 0 THEN 1 ELSE 0)]

CSVHeader == <<"Date", "Transport (kg)", "Food (kg)", "Energy (kg)", "Total (kg)">>

\* one row of the export: the date and the four figures
CSVRow(date, day) ==
    <<DateText(date), toFixed2(day.transport), toFixed2(day.food),
      toFixed2(day.energy), toFixed2(day.total)>>

\* the rows of toCSV with the keys left as Object.keys lists them
rowsUnsorted(daily, keys) ==
    <<CSVHeader>> \o [i \in 1..Len(keys) |-> CSVRow(keys[i], daily[keys[i]])]

\* the rows of toCSV: Object.keys(data.daily).sort().forEach(...)
rows(daily, keys) ==
    <<CSVHeader>> \o [i \in 1..Len(keys) |-> CSVRow(sort(keys)[i], daily[sort(keys)[i]])]

\* the orders in which Object.keys may list the keys of daily
KeyOrders(daily) ==
    {f \in [1..Cardinality(DOMAIN daily) -> DOMAIN daily] :
        \A i, j \in DOMAIN f : i # j => f[i] # f[j]}

\* Export.toCSV(data)
ToCSV(keys) ==
    Answer("toCSV", [keys |-> keys], Reading(rows(data.daily, keys), data.daily))

\* Export.generateSummary(data): the daily average of the summary
GenerateSummary ==
    Answer("generateSummary", [keys |-> <<>>], averaged("generateSummary", data.daily))

ExportNext ==
    \/ \E keys \in KeyOrders(data.daily) : ToCSV(keys)
    \/ GenerateSummary

Exports == ReaderInit /\ [][ExportNext]_vars

\* C24: the CSV export is one header row followed by exactly one row for each
\* date key of daily, in strictly ascending order of the date keys, and
\* making it leaves the state as it was.
C24_CSVOneRowPerDateAscending ==
    [][lastOp'.op = "toCSV" =>
         LET out == lastOp'.out
         IN /\ Len(out) = 1 + Cardinality(DOMAIN data.daily)
            /\ out[1] = CSVHeader
            /\ {out[i][1] : i \in 2..Len(out)} = {DateText(k) : k \in DOMAIN data.daily}
            /\ \A i \in 2..Len(out) - 1 : TextBefore(out[i][1], out[i + 1][1])
            /\ UNCHANGED <<data, storage, view>>]_vars

\* an export of three days that Object.keys lists latest first
C24_Witness ==
    /\ lastOp.op = "toCSV"
    /\ Len(lastOp.arg.keys) >= 3
    /\ lastOp.arg.keys[1] > lastOp.arg.keys[2]
    /\ lastOp.arg.keys[2] > lastOp.arg.keys[3]
    /\ Len(lastOp.out) = Len(lastOp.arg.keys) + 1

(***************************************************************************)
(* The two applications side by side: every record call is made on both,   *)
(* each on its own data, store and page.  The variables hold a value for   *)
(* each variant.                                                           *)
(***************************************************************************)
\* Lengths of the earlier session, the same on both sides
TwinSeeds == {0, CapSimple - 1, CapSimple}

\* The buttons with a category and a type
FullButtons == {b \in Buttons : b.category # "" /\ b.type # ""}

TwinInit ==
    \E q \in BOOLEAN, n \in TwinSeeds :
        /\ variant = "both"
        /\ quota = q
        /\ today = 0
        /\ data = [v \in Variants |-> PriorSession(v, n).data]
        /\ storage = [v \in Variants |-> PriorSession(v, n).storage]
        /\ view = [v \in Variants |-> PriorSession(v, n).view]
        /\ ledger = PriorSession("simple", n).ledger
        /\ origin = "saved"
        /\ lastOp = NoOp

\* both handlers return
TwinReturn(category, type, carbon, rs, rf) ==
    /\ data' = [simple |-> rs.data, full |-> rf.data]
    /\ storage' = [simple |-> rs.storage, full |-> rf.storage]
    /\ view' = [simple |-> rs.view, full |-> rf.view]
    /\ lastOp' = [op |-> "logActivity", category |-> category, type |-> type,
                  carbon |-> carbon, end |-> <<rs.end, rf.end>>, n |-> lastOp.n + 1]
    /\ ledger' = Append(ledger, Entry(today, category, type, carbon))
    /\ UNCHANGED <<variant, quota, today, origin>>

\* the same button clicked on both pages
TwinClick(b) ==
    /\ lastOp.n < MaxSteps
    /\ TwinReturn(b.category, b.type, parseFloat(b.s, b.n, b.scale),
                  logActivity("simple", quota, today, data.simple, storage.simple,
                              view.simple, b.category, b.type,
                              parseFloat(b.s, b.n, b.scale)),
                  logActivity("full", quota, today, data.full, storage.full,
                              view.full, b.category, b.type,
                              parseFloat(b.s, b.n, b.scale)))

TwinNext ==
    \/ \E b \in FullButtons : TwinClick(b)
    \/ Midnight

Twins == TwinInit /\ [][TwinNext]_vars

\* category, type and carbon figure of the first n entries of a list
Shared(acts, n) ==
    [i \in 1..Min(n, Len(acts)) |->
        <<acts[i].category, acts[i].type, Amount(acts[i])>>]

\* C25: the two logActivity variants agree on the state they share: after
\* the same record calls with a category and a type, their daily maps are
\* identical, so are their counts of logged activities and of eco choices,
\* and their activity lists agree on category, type and carbon figure over
\* the first 50 entries.
C25_VariantsAgree ==
    /\ data.simple.daily = data.full.daily
    /\ data.simple.stats.logged = data.full.stats.totalLogged
    /\ data.simple.stats.ecoChoices = data.full.stats.ecoChoices
    /\ Shared(data.simple.activities, CapSimple) = Shared(data.full.activities, CapSimple)

\* more calls than the shorter list keeps: one list is trimmed, the other not
C25_Witness ==
    /\ lastOp.op = "logActivity"
    /\ Len(data.full.activities) > CapSimple
    /\ Len(data.simple.activities) = CapSimple
    /\ 1 \in DOMAIN data.full.daily

(***************************************************************************)
(* Properties of the record call and of the demo loader, continued.        *)
(***************************************************************************)
\* C26: a record call changes only the bucket of the day of the call, and in
\* it only the field of its category and total, each by exactly the carbon
\* figure: the buckets of the other days and the other fields of the bucket
\* are as they were.
C26_RecordTouchesOneBucket ==
    [][(RecordStep /\ lastOp'.category \in Categories) =>
         /\ DOMAIN data'.daily = DOMAIN data.daily \cup {today}
         /\ \A k \in DOMAIN data.daily \ {today} : data'.daily[k] = data.daily[k]
         /\ data'.daily[today][lastOp'.category] =
                fadd(getBucket(data, today)[lastOp'.category], lastOp'.carbon)
         /\ data'.daily[today].total = fadd(getBucket(data, today).total, lastOp'.carbon)
         /\ \A f \in DOMAIN data'.daily[today] \ {lastOp'.category, "total"} :
                data'.daily[today][f] = getBucket(data, today)[f]]_vars

\* a vegan meal recorded on a day that already has a car trip, with the
\* bucket of an earlier day in the map
C26_Witness ==
    /\ Recorded
    /\ lastOp.category = "food"
    /\ ~IsZero(lastOp.carbon)
    /\ ~IsZero(data.daily[today].transport)
    /\ DOMAIN data.daily \ {today} # {}

\* C27: every bucket the demo loader writes has total = transport + food +
\* energy for the stored field values, those rounded to one decimal,
\* whatever the random draws: the two sides are equal to one decimal.
C27_DemoTotalIsSumOfStored ==
    lastOp.op = "loadDemoData" =>
        \A k \in DOMAIN data.daily :
            NumEq(data.daily[k].total,
                  Round1(fadd(fadd(data.daily[k].transport, data.daily[k].food),
                              data.daily[k].energy)))

\* C28: from a fresh state and record calls alone, in every state the list
\* is as long as the lesser of the count of logged activities and CAP, and
\* 0 <= stats.ecoChoices <= stats.logged.
C28_ListAndCountersAgree ==
    RecordsOnly =>
        /\ Len(data.activities) = Min(data.stats[LoggedKey(variant)], Cap(variant))
        /\ 0 <= data.stats.ecoChoices
        /\ data.stats.ecoChoices <= data.stats[LoggedKey(variant)]

\* more activities logged than the list keeps, some of them eco choices and
\* some not, the last one an eco choice
C28_Witness ==
    /\ RecordsOnly
    /\ Recorded
    /\ LeZero(lastOp.carbon)
    /\ data.stats[LoggedKey(variant)] > Cap(variant)
    /\ Len(data.activities) = Cap(variant)
    /\ 0 < data.stats.ecoChoices
    /\ data.stats.ecoChoices < data.stats[LoggedKey(variant)]

\* C29: whenever the write to the store succeeds, what is stored at the end
\* of a record call or of a demo-data load is the state in memory: a reload
\* right after it yields the same daily, activities and stats.
C29_ReloadYieldsSameState ==
    (lastOp.op \in {"logActivity", "loadDemoData"} /\ lastOp.end = "done" /\ ~quota) =>
        /\ loadData(variant, storage).daily = data.daily
        /\ loadData(variant, storage).activities = data.activities
        /\ loadData(variant, storage).stats = data.stats

(***************************************************************************)
(* The storage module (src/js/storage.js): Storage.set and Storage.import  *)
(* on the item of the data key.  A text is like a stored item: one that    *)
(* parses, with its value, or one that does not.                           *)
(***************************************************************************)
\* JSON.stringify(value) as the item it makes; a parsed value has no NaN
Stringify(value) ==
    [kind |-> "json", val |-> IF Members \subseteq DOMAIN value THEN ToJSON(value) ELSE value]

\* Storage.set(key, value): [storage, ok]; a failing setItem is caught
set(q, value, st) ==
    IF q THEN [storage |-> st, ok |-> FALSE]
    ELSE [storage |-> Stringify(value), ok |-> TRUE]

\* Storage.import(jsonString): JSON.parse, this.set(...), return true;
\* false from the catch when the text does not parse
import(q, text, st) ==
    IF text.kind # "json" THEN [storage |-> st, returned |-> FALSE]
    ELSE [storage |-> set(q, text.val, st).storage, returned |-> TRUE]

\* States an earlier session of k record calls stored, k up to MaxStored
MaxStored == 3
StoredItems == {PriorSession("full", k).storage : k \in 1..MaxStored}

\* Texts given to import: unparsable, or parsing to a state or to part of one
Texts == {BadText} \cup StoredItems \cup Malformed("full")

StorageInit ==
    \E q \in BOOLEAN, st \in {NoItem, BadText} \cup StoredItems :
        Loaded("full", q, 0, st, <<>>, st.kind)

\* a call of the storage module returns
Stored(op, text, r, out) ==
    /\ storage' = r.storage
    /\ lastOp' = [op |-> op, arg |-> text, out |-> out]
    /\ UNCHANGED <<variant, quota, today, data, view, ledger, origin>>

Import(text) == Stored("import", text, import(quota, text, storage),
                       import(quota, text, storage).returned)

Set(text) == Stored("set", text, set(quota, text.val, storage),
                    set(quota, text.val, storage).ok)

StorageNext ==
    \/ \E text \in Texts : Import(text)
    \/ \E text \in Texts \ {BadText} : Set(text)

StorageCalls == StorageInit /\ [][StorageNext]_vars

\* C30: Storage.import returns the success of the import: true exactly when
\* the text was parsed and its value written under the data key; when it
\* returns false, because the text does not parse or the write failed, the
\* stored data is as it was.
C30_ImportReturnsSuccess ==
    [][lastOp'.op = "import" =>
         /\ lastOp'.out = TRUE <=>
                (lastOp'.arg.kind = "json" /\ ~quota /\ storage' = lastOp'.arg)
         /\ lastOp'.out = FALSE => storage' = storage]_vars
====
